---- MODULE Spec2Model ----
(***************************************************************************)
(* Model of the documentation site's client-side search: the Header's      *)
(* search-modal state, the SearchModal's query state and the useSearch     *)
(* hook (asynchronous index build, synchronous substring search).          *)
(*                                                                         *)
(* JavaScript strings are modelled as sequences of UTF-16 code units       *)
(* (naturals), so that toLowerCase, indexOf, substring, trim, split and    *)
(* replace are computed the way the engine computes them.                  *)
(***************************************************************************)
EXTENDS Integers, Sequences, FiniteSets, TLC

(***************************************************************************)
(* Code units used by the model's texts.                                   *)
(***************************************************************************)
U ==
  [ tab |-> 9, nl |-> 10, cr |-> 13, sp |-> 32, dq |-> 34, sq |-> 39, dash |-> 45,
    dot |-> 46, slash |-> 47, colon |-> 58,
    A |-> 65, B |-> 66, K |-> 75, a |-> 97, b |-> 98, c |-> 99, d |-> 100, e |-> 101,
    i |-> 105, k |-> 107, l |-> 108, m |-> 109, n |-> 110, o |-> 111, p |-> 112,
    r |-> 114, s |-> 115, t |-> 116, x |-> 120, y |-> 121, z |-> 122,
    Idot |-> 304, dotabove |-> 775 ]

Rep(ch, n) == [k \in 1..n |-> ch]

Min(m, n) == IF m <= n THEN m ELSE n

Max(m, n) == IF m >= n THEN m ELSE n

(***************************************************************************)
(* String.prototype.toLowerCase: per code unit; A-Z map to a-z, U+0130     *)
(* (capital I with dot above) maps to the two units U+0069 U+0307, every   *)
(* other unit of the model's alphabet is unchanged.                        *)
(***************************************************************************)
lowerUnit(ch) ==
  IF ch >= 65 /\ ch <= 90 THEN <<ch + 32>>
  ELSE IF ch = 304 THEN <<105, 775>>
  ELSE <<ch>>

RECURSIVE toLowerCase(_)
toLowerCase(s) ==
  IF s = <<>> THEN <<>>
  ELSE IF Len(s) = 1 THEN lowerUnit(s[1])
  ELSE LET h == Len(s) \div 2
       IN  toLowerCase(SubSeq(s, 1, h)) \o toLowerCase(SubSeq(s, h + 1, Len(s)))

(***************************************************************************)
(* String.prototype.includes / indexOf (0-based, -1 when absent).          *)
(***************************************************************************)
occursAt(s, q, k) == k + Len(q) <= Len(s) /\ SubSeq(s, k + 1, k + Len(q)) = q

includes(s, q) == \E k \in 0..Len(s) : occursAt(s, q, k)

indexOfFrom(s, q, from) ==
  IF \E k \in from..Len(s) : occursAt(s, q, k)
  THEN CHOOSE k \in from..Len(s) :
         occursAt(s, q, k) /\ \A j \in from..(k - 1) : ~occursAt(s, q, j)
  ELSE -1

indexOf(s, q) == indexOfFrom(s, q, 0)

(***************************************************************************)
(* String.prototype.substring(start, end): both arguments are clamped to   *)
(* [0, length] and swapped when start > end.                               *)
(***************************************************************************)
substring(s, start, end) ==
  LET cs == Min(Max(start, 0), Len(s))
      ce == Min(Max(end, 0), Len(s))
  IN  SubSeq(s, Min(cs, ce) + 1, Max(cs, ce))

(***************************************************************************)
(* String.prototype.trim: strips white space and line terminators from     *)
(* both ends.                                                              *)
(***************************************************************************)
isWhiteSpace(ch) ==
  ch \in {9, 10, 11, 12, 13, 32, 160, 5760, 8232, 8233, 8239, 8287, 12288, 65279}
  \/ (ch >= 8192 /\ ch <= 8202)

trimStart(s) ==
  LET kept == {k \in 1..Len(s) : ~isWhiteSpace(s[k])}
  IN  IF kept = {} THEN <<>>
      ELSE SubSeq(s, CHOOSE k \in kept : \A j \in kept : k <= j, Len(s))

trimEnd(s) ==
  LET kept == {k \in 1..Len(s) : ~isWhiteSpace(s[k])}
  IN  IF kept = {} THEN <<>>
      ELSE SubSeq(s, 1, CHOOSE k \in kept : \A j \in kept : j <= k)

trim(s) == trimEnd(trimStart(s))

(***************************************************************************)
(* String.prototype.split(sep) for a one-unit separator, and               *)
(* Array.prototype.join(sep).                                              *)
(***************************************************************************)
RECURSIVE split(_, _)
split(s, sep) ==
  LET k == indexOf(s, <<sep>>)
  IN  IF k = -1 THEN <<s>>
      ELSE <<SubSeq(s, 1, k)>> \o split(SubSeq(s, k + 2, Len(s)), sep)

RECURSIVE join(_, _)
join(parts, sep) ==
  IF parts = <<>> THEN <<>>
  ELSE IF Len(parts) = 1 THEN parts[1]
  ELSE parts[1] \o <<sep>> \o join(Tail(parts), sep)

(***************************************************************************)
(* String.prototype.replace(pattern, '') with a string pattern: removes    *)
(* the first occurrence only.                                              *)
(***************************************************************************)
replaceFirst(s, pat) ==
  LET k == indexOf(s, pat)
  IN  IF k = -1 THEN s
      ELSE SubSeq(s, 1, k) \o SubSeq(s, k + Len(pat) + 1, Len(s))

(***************************************************************************)
(* Texts the source spells out.                                            *)
(***************************************************************************)
Ellipsis == <<U.dot, U.dot, U.dot>>

MdExt == <<U.dot, U.m, U.d>>

Fence == <<U.dash, U.dash, U.dash, U.nl>>

CloseFence == <<U.nl, U.dash, U.dash, U.dash, U.nl>>

TitleKey == <<U.t, U.i, U.t, U.l, U.e>>

DescriptionKey ==
  <<U.d, U.e, U.s, U.c, U.r, U.i, U.p, U.t, U.i, U.o, U.n>>

ContentsDir ==
  <<U.dot, U.dot, U.slash, U.c, U.o, U.n, U.t, U.e, U.n, U.t, U.s, U.slash>>

SnippetBefore == 40

SnippetAfter == 60

(***************************************************************************)
(* buildIndex, per asset: slug derivation and frontmatter parsing.         *)
(***************************************************************************)
slugOf(path) ==
  LET parts == split(path, U.slash)
  IN  replaceFirst(parts[Len(parts)], MdExt)

\* Variant: the group is greedy and ends at the last closing fence.
frontmatterMatch_greedy(rawContent) ==
  LET opens == occursAt(rawContent, Fence, 0)
      ends == {k \in Len(Fence)..Len(rawContent) : occursAt(rawContent, CloseFence, k)}
      close == IF opens /\ ends # {} THEN CHOOSE k \in ends : \A j \in ends : j <= k ELSE -1
  IN  IF close = -1
      THEN [matched |-> FALSE, metaBlock |-> <<>>, content |-> rawContent]
      ELSE [matched |-> TRUE,
            metaBlock |-> SubSeq(rawContent, Len(Fence) + 1, close),
            content |-> SubSeq(rawContent, close + Len(CloseFence) + 1, Len(rawContent))]

\* /^---\n([\s\S]*?)\n---\n([\s\S]*)$/ : the text starts with the fence and
\* the lazy group ends at the first closing fence at or after offset 4.
frontmatterMatch(rawContent) ==
  LET opens == occursAt(rawContent, Fence, 0)
      close == IF opens THEN indexOfFrom(rawContent, CloseFence, Len(Fence)) ELSE -1
  IN  IF close = -1
      THEN [matched |-> FALSE, metaBlock |-> <<>>, content |-> rawContent]
      ELSE [matched |-> TRUE,
            metaBlock |-> SubSeq(rawContent, Len(Fence) + 1, close),
            content |-> SubSeq(rawContent, close + Len(CloseFence) + 1, Len(rawContent))]

\* Variant: the value is the part between the first and the second colon.
metaAssignments_firstPart(metaBlock) ==
  LET lines == split(metaBlock, U.nl)
      keyed == SelectSeq(lines, LAMBDA line : split(line, U.colon)[1] # <<>>)
  IN  [k \in 1..Len(keyed) |->
         LET parts == split(keyed[k], U.colon)
         IN  [key |-> trim(parts[1]),
              val |-> IF Len(parts) > 1 THEN trim(parts[2]) ELSE <<>>]]

\* metaBlock.split('\n').forEach(line => { const [key, ...value] = line.split(':');
\*   if (key && value) meta[key.trim()] = value.join(':').trim(); })
\* as the sequence of assignments made, in order.
metaAssignments(metaBlock) ==
  LET lines == split(metaBlock, U.nl)
      keyed == SelectSeq(lines, LAMBDA line : split(line, U.colon)[1] # <<>>)
  IN  [k \in 1..Len(keyed) |->
         LET parts == split(keyed[k], U.colon)
         IN  [key |-> trim(parts[1]), val |-> trim(join(Tail(parts), U.colon))]]

\* meta[name] after the assignments: the last one made to that key.
metaGet(assignments, name) ==
  LET at == {k \in 1..Len(assignments) : assignments[k].key = name}
  IN  IF at = {} THEN [has |-> FALSE, val |-> <<>>]
      ELSE [has |-> TRUE,
            val |-> assignments[CHOOSE k \in at : \A j \in at : j <= k].val]

isQuote(ch) == ch = U.sq \/ ch = U.dq

\* value.replace(/^['"]|['"]$/g, '')
stripQuotes(v) ==
  LET lead == v # <<>> /\ isQuote(v[1])
      rest == IF lead THEN Tail(v) ELSE v
  IN  IF rest # <<>> /\ isQuote(rest[Len(rest)])
      THEN SubSeq(rest, 1, Len(rest) - 1)
      ELSE rest

\* Variant: title starts out empty instead of as the slug.
loadRecord_untitled(path, rawContent) ==
  LET slug == slugOf(path)
      fm == frontmatterMatch(rawContent)
      meta == metaAssignments(fm.metaBlock)
      mt == metaGet(meta, TitleKey)
      md == metaGet(meta, DescriptionKey)
  IN  [slug |-> slug,
       title |-> IF fm.matched /\ mt.has /\ mt.val # <<>> THEN stripQuotes(mt.val) ELSE <<>>,
       description |-> IF fm.matched /\ md.has /\ md.val # <<>> THEN stripQuotes(md.val) ELSE <<>>,
       content |-> fm.content]

loadRecord(path, rawContent) ==
  LET slug == slugOf(path)
      fm == frontmatterMatch(rawContent)
      meta == metaAssignments(fm.metaBlock)
      mt == metaGet(meta, TitleKey)
      md == metaGet(meta, DescriptionKey)
  IN  [slug |-> slug,
       title |-> IF fm.matched /\ mt.has /\ mt.val # <<>> THEN stripQuotes(mt.val) ELSE slug,
       description |-> IF fm.matched /\ md.has /\ md.val # <<>> THEN stripQuotes(md.val) ELSE <<>>,
       content |-> fm.content]

(***************************************************************************)
(* search(query): the hit, if any, of one item, and the scan of the index. *)
(***************************************************************************)
\* Variant: the window starts at the match instead of 40 units before it.
snippetOf_fromMatch(content, contentIndex) ==
  LET start == Max(0, contentIndex)
      end == Min(Len(content), contentIndex + 60)
  IN  <<46, 46, 46>> \o substring(content, start, end) \o <<46, 46, 46>>

snippetOf(content, contentIndex) ==
  LET start == Max(0, contentIndex - SnippetBefore)
      end == Min(Len(content), contentIndex + SnippetAfter)
  IN  Ellipsis \o substring(content, start, end) \o Ellipsis

\* Variant: the content match is tried before the title match.
hitsOfItem_contentFirst(item, q) ==
  LET contentIndex == indexOf(toLowerCase(item.content), q)
  IN  IF contentIndex # -1
      THEN << [slug |-> item.slug, title |-> item.title,
               description |-> item.description, matchType |-> "content",
               snippet |-> snippetOf(item.content, contentIndex)] >>
      ELSE IF includes(toLowerCase(item.title), q)
      THEN << [slug |-> item.slug, title |-> item.title,
               description |-> item.description, matchType |-> "title",
               snippet |-> item.description] >>
      ELSE <<>>

\* Variant: no return after the title hit, so the content match is pushed too.
hitsOfItem_both(item, q) ==
  LET contentIndex == indexOf(toLowerCase(item.content), q)
      titleHit ==
        IF includes(toLowerCase(item.title), q)
        THEN << [slug |-> item.slug, title |-> item.title,
                 description |-> item.description, matchType |-> "title",
                 snippet |-> item.description] >>
        ELSE <<>>
      contentHit ==
        IF contentIndex # -1
        THEN << [slug |-> item.slug, title |-> item.title,
                 description |-> item.description, matchType |-> "content",
                 snippet |-> snippetOf(item.content, contentIndex)] >>
        ELSE <<>>
  IN  titleHit \o contentHit

\* Variant: the body is searched without lowercasing it.
hitsOfItem_rawContent(item, q) ==
  IF includes(toLowerCase(item.title), q)
  THEN << [slug |-> item.slug, title |-> item.title,
           description |-> item.description, matchType |-> "title",
           snippet |-> item.description] >>
  ELSE LET contentIndex == indexOf(item.content, q)
       IN  IF contentIndex # -1
           THEN << [slug |-> item.slug, title |-> item.title,
                    description |-> item.description, matchType |-> "content",
                    snippet |-> snippetOf(item.content, contentIndex)] >>
           ELSE <<>>

\* Variant: the hit carries the lowercased title used for matching.
hitsOfItem_lowerTitle(item, q) ==
  IF includes(toLowerCase(item.title), q)
  THEN << [slug |-> item.slug, title |-> toLowerCase(item.title),
           description |-> item.description, matchType |-> "title",
           snippet |-> item.description] >>
  ELSE LET contentIndex == indexOf(toLowerCase(item.content), q)
       IN  IF contentIndex # -1
           THEN << [slug |-> item.slug, title |-> toLowerCase(item.title),
                    description |-> item.description, matchType |-> "content",
                    snippet |-> snippetOf(item.content, contentIndex)] >>
           ELSE <<>>

hitsOfItem(item, q) ==
  IF includes(toLowerCase(item.title), q)
  THEN << [slug |-> item.slug, title |-> item.title,
           description |-> item.description, matchType |-> "title",
           snippet |-> item.description] >>
  ELSE LET contentIndex == indexOf(toLowerCase(item.content), q)
       IN  IF contentIndex # -1
           THEN << [slug |-> item.slug, title |-> item.title,
                    description |-> item.description, matchType |-> "content",
                    snippet |-> snippetOf(item.content, contentIndex)] >>
           ELSE <<>>

\* Variant: title hits are listed before content hits.
scan_titleFirst(idx, q) ==
  LET hit(item) == hitsOfItem(item, q)
      byTitle == SelectSeq(idx, LAMBDA item :
                   hit(item) # <<>> /\ hit(item)[1].matchType = "title")
      byContent == SelectSeq(idx, LAMBDA item :
                     hit(item) # <<>> /\ hit(item)[1].matchType = "content")
  IN  [k \in 1..Len(byTitle) |-> hit(byTitle[k])[1]]
        \o [k \in 1..Len(byContent) |-> hit(byContent[k])[1]]

RECURSIVE scan(_, _)
scan(idx, q) ==
  IF idx = <<>> THEN <<>> ELSE hitsOfItem(Head(idx), q) \o scan(Tail(idx), q)

\* Variant: only the empty string counts as blank (no trim).
isBlank_emptyOnly(query) == query = <<>>

isBlank(query) == trim(query) = <<>>

\* Variant: the query is compared as typed, without toLowerCase.
searchHits_caseSensitive(query, idx) ==
  IF trim(query) = <<>> THEN <<>> ELSE scan(idx, query)

\* The value search(query) passes to setResults, given the index it closes over.
searchHits(query, idx) ==
  IF isBlank(query) THEN <<>> ELSE scan(idx, toLowerCase(query))

(***************************************************************************)
(* The assets the bundler may supply and the texts a user may type.        *)
(***************************************************************************)
MaxDocs == 2

\* File names in enumeration order: x.md, xy.md, xyy.md, ...
pathOf(k) == ContentsDir \o <<U.x>> \o Rep(U.y, k - 1) \o MdExt

withFrontmatter(metaBlock, body) == Fence \o metaBlock \o CloseFence \o body

RawPool ==
  << \* title: "Ab" / description: d, body "ab b"
     withFrontmatter(TitleKey \o <<U.colon, U.sp, U.dq, U.A, U.b, U.dq, U.nl>>
                       \o DescriptionKey \o <<U.colon, U.sp, U.d>>,
                     <<U.a, U.b, U.sp, U.b>>),
     \* no frontmatter: 41 capital dotted I, then "ab"
     Rep(U.Idot, 41) \o <<U.a, U.b>>,
     \* no frontmatter: 45 a, one B, 70 a
     Rep(U.a, 45) \o <<U.B>> \o Rep(U.a, 70),
     \* title: B b, no description, body "ba"
     withFrontmatter(TitleKey \o <<U.colon, U.sp, U.B, U.sp, U.b>>, <<U.b, U.a>>),
     \* description: 'e', no title, body 39 a then "b"
     withFrontmatter(DescriptionKey \o <<U.colon, U.sp, U.sq, U.e, U.sq>>,
                     Rep(U.a, 39) \o <<U.b>>) >>

Queries ==
  { <<>>, <<U.sp>>, <<U.tab, U.nl>>,
    <<U.a, U.b>>, <<U.A, U.B>>, <<U.b>>, <<U.B, U.sp>>,
    Rep(U.a, 61), <<U.z, U.z>>, <<U.x>> }

Keys == {<<U.k>>, <<U.K>>, <<U.a>>}

ModuleSets ==
  UNION { [1..n -> 1..Len(RawPool)] : n \in 0..MaxDocs }

(***************************************************************************)
(* State.                                                                  *)
(***************************************************************************)
VARIABLES
  modules,       \* import.meta.glob result: sequence of [path, raw]
  buildPc,       \* position of buildIndex: unmounted, reading, done, failed
  buildPos,      \* buildIndex: position of the for-in loop in modules
  items,         \* buildIndex: local array
  index,         \* useSearch state
  results,       \* useSearch state
  isSearching,   \* useSearch state
  query,         \* SearchModal state
  isSearchOpen,  \* Header state
  route,         \* router location: <<>> for "/", else the slug of /docs/<slug>
  lastEvent,     \* history: the handler that ran last
  searchRepeated, \* history: the last handler was a search with the query of
                  \* the search that ran just before it
  reading,       \* ReadingProgress: its state and the geometry of <main>
  article,       \* ArticlePage: its state and its getDocContent calls in flight
  diagram        \* MermaidDiagram: its props, state, timers and container

vars ==
  <<modules, buildPc, buildPos, items, index, results, isSearching, query,
    isSearchOpen, route, lastEvent, searchRepeated, reading, article, diagram>>

\* The components of an article page, which the search handlers never touch.
pageVars == <<reading, article, diagram>>

\* A number n / d with d > 0 (JavaScript numbers that are not integers).
Rat(n, d) == [num |-> n, den |-> d]

\* ReadingProgress before it mounts: useState(0).
readingInitial ==
  [mounted |-> FALSE, progress |-> Rat(0, 1),
   scrollTop |-> 0, scrollHeight |-> 0, clientHeight |-> 0]

\* ArticlePage before it mounts: content null, meta null, loading true.
Null == <<>>

Some(v) == <<v>>

\* ArticlePage before it mounts: content null, meta null, loading true.
\* pending holds the getDocContent calls whose import has not settled, calls
\* counts the calls made, settled is the slug of the call that settled last.
articleInitial ==
  [mounted |-> FALSE, content |-> Null, meta |-> Null, loading |-> TRUE,
   pending |-> {}, calls |-> 0, settled |-> <<>>]

\* MermaidDiagram before it mounts: timer is the pending render timeout
\* (with the definition its closure holds), rendering the mermaid.render calls not yet settled, shown what
\* the svg container holds, fitTimer the pending auto-fit timeout.
diagramInitial ==
  [mounted |-> FALSE, definition |-> "", isRendered |-> FALSE,
   shown |-> [kind |-> "empty", of |-> ""],
   timer |-> Null, rendering |-> {}, fitTimer |-> FALSE,
   scale |-> Rat(1, 1), initialScale |-> Rat(1, 1),
   position |-> [x |-> 0, y |-> 0], isDragging |-> FALSE,
   dragStart |-> [x |-> 0, y |-> 0], positionStart |-> [x |-> 0, y |-> 0]]

pageInit ==
  /\ reading = readingInitial
  /\ article = articleInitial
  /\ diagram = diagramInitial

Init ==
  /\ modules \in { [k \in DOMAIN f |-> [path |-> pathOf(k), raw |-> RawPool[f[k]]]] :
                   f \in ModuleSets }
  /\ buildPc = "unmounted"
  /\ buildPos = 0
  /\ items = <<>>
  /\ index = <<>>
  /\ results = <<>>
  /\ isSearching = FALSE
  /\ query = <<>>
  /\ isSearchOpen = FALSE
  /\ route = <<>>
  /\ lastEvent = "init"
  /\ searchRepeated = FALSE
  /\ pageInit

mounted == buildPc # "unmounted"

(***************************************************************************)
(* useSearch mount effect: buildIndex runs up to its first await; with no  *)
(* modules it runs to setIndex at once.                                    *)
(***************************************************************************)
Mount ==
  /\ buildPc = "unmounted"
  /\ IF modules = <<>>
     THEN buildPc' = "done" /\ buildPos' = 0
     ELSE buildPc' = "reading" /\ buildPos' = 1
  /\ lastEvent' = "mount"
  /\ searchRepeated' = FALSE
  /\ UNCHANGED <<modules, items, index, results, isSearching, query,
                 isSearchOpen, route>>
  /\ UNCHANGED pageVars

\* Variant: setIndex is called after every push, not once after the loop.
BuildRead_incremental ==
  /\ buildPc = "reading"
  /\ LET m == modules[buildPos]
         pushed == Append(items, loadRecord(m.path, m.raw))
     IN  /\ items' = pushed
         /\ index' = pushed
         /\ IF buildPos = Len(modules)
            THEN buildPc' = "done" /\ buildPos' = buildPos
            ELSE buildPc' = "reading" /\ buildPos' = buildPos + 1
  /\ lastEvent' = "read"
  /\ searchRepeated' = FALSE
  /\ UNCHANGED <<modules, results, isSearching, query, isSearchOpen, route>>
  /\ UNCHANGED pageVars

\* The awaited import of modules[buildPos] resolves: the loop body runs, and
\* after the last path setIndex(items) publishes the array.
BuildRead ==
  /\ buildPc = "reading"
  /\ LET m == modules[buildPos]
         pushed == Append(items, loadRecord(m.path, m.raw))
     IN  /\ items' = pushed
         /\ IF buildPos = Len(modules)
            THEN buildPc' = "done" /\ index' = pushed /\ buildPos' = buildPos
            ELSE buildPc' = "reading" /\ index' = index /\ buildPos' = buildPos + 1
  /\ lastEvent' = "read"
  /\ searchRepeated' = FALSE
  /\ UNCHANGED <<modules, results, isSearching, query, isSearchOpen, route>>
  /\ UNCHANGED pageVars

\* The awaited import rejects: buildIndex has no try/catch, its promise
\* rejects and nothing after the await runs.
BuildReadFail ==
  /\ buildPc = "reading"
  /\ buildPc' = "failed"
  /\ lastEvent' = "readFail"
  /\ searchRepeated' = FALSE
  /\ UNCHANGED <<modules, buildPos, items, index, results, isSearching, query,
                 isSearchOpen, route>>
  /\ UNCHANGED pageVars

(***************************************************************************)
(* Header.                                                                 *)
(***************************************************************************)
\* The Cmd+K / Ctrl+K gesture of the README, as a keydown event.
searchShortcut(metaKey, ctrlKey, key) == (metaKey \/ ctrlKey) /\ key = <<U.k>>

\* Variant: only the Cmd key is honoured.
handleKeyDown_metaOnly(metaKey, ctrlKey, key) ==
  /\ mounted
  /\ isSearchOpen' = IF metaKey /\ key = <<U.k>> THEN TRUE ELSE isSearchOpen
  /\ lastEvent' = IF searchShortcut(metaKey, ctrlKey, key) THEN "shortcut" ELSE "keydown"
  /\ searchRepeated' = FALSE
  /\ UNCHANGED <<modules, buildPc, buildPos, items, index, results, isSearching,
                 query, route>>
  /\ UNCHANGED pageVars

handleKeyDown(metaKey, ctrlKey, key) ==
  /\ mounted
  /\ isSearchOpen' = IF (metaKey \/ ctrlKey) /\ key = <<U.k>> THEN TRUE ELSE isSearchOpen
  /\ lastEvent' = IF searchShortcut(metaKey, ctrlKey, key) THEN "shortcut" ELSE "keydown"
  /\ searchRepeated' = FALSE
  /\ UNCHANGED <<modules, buildPc, buildPos, items, index, results, isSearching,
                 query, route>>
  /\ UNCHANGED pageVars

\* Variant: the index build is (re)started when the modal is opened.
clickSearchButton_startsBuild ==
  /\ mounted
  /\ isSearchOpen' = TRUE
  /\ items' = <<>>
  /\ IF modules = <<>>
     THEN buildPc' = "done" /\ buildPos' = 0
     ELSE buildPc' = "reading" /\ buildPos' = 1
  /\ lastEvent' = "open"
  /\ searchRepeated' = FALSE
  /\ UNCHANGED <<modules, index, results, isSearching, query, route>>
  /\ UNCHANGED pageVars

clickSearchButton ==
  /\ mounted
  /\ isSearchOpen' = TRUE
  /\ lastEvent' = "open"
  /\ searchRepeated' = FALSE
  /\ UNCHANGED <<modules, buildPc, buildPos, items, index, results, isSearching,
                 query, route>>
  /\ UNCHANGED pageVars

(***************************************************************************)
(* SearchModal.                                                            *)
(***************************************************************************)
\* Dialog dismissal: Header's onClose, then the [isOpen] effect resets query.
onClose ==
  /\ mounted
  /\ isSearchOpen
  /\ isSearchOpen' = FALSE
  /\ query' = <<>>
  /\ lastEvent' = "close"
  /\ searchRepeated' = FALSE
  /\ UNCHANGED <<modules, buildPc, buildPos, items, index, results, isSearching,
                 route>>
  /\ UNCHANGED pageVars

\* Variant: an empty hit list leaves the previous results on screen.
handleSearch_keepOnNoHits(q) ==
  /\ mounted
  /\ isSearchOpen
  /\ query' = q
  /\ results' = IF ~isBlank(q) /\ searchHits(q, index) = <<>>
                THEN results ELSE searchHits(q, index)
  /\ isSearching' = IF isBlank(q) THEN isSearching ELSE FALSE
  /\ lastEvent' = "search"
  /\ searchRepeated' = (lastEvent = "search" /\ q = query)
  /\ UNCHANGED <<modules, buildPc, buildPos, items, index, isSearchOpen, route>>
  /\ UNCHANGED pageVars

\* Variant: the hits are appended to the previous results.
handleSearch_merge(q) ==
  /\ mounted
  /\ isSearchOpen
  /\ query' = q
  /\ results' = IF isBlank(q) THEN <<>> ELSE results \o searchHits(q, index)
  /\ isSearching' = IF isBlank(q) THEN isSearching ELSE FALSE
  /\ lastEvent' = "search"
  /\ searchRepeated' = (lastEvent = "search" /\ q = query)
  /\ UNCHANGED <<modules, buildPc, buildPos, items, index, isSearchOpen, route>>
  /\ UNCHANGED pageVars

\* Variant: the scan lowercases the titles of the index in place.
handleSearch_lowercasesIndex(q) ==
  /\ mounted
  /\ isSearchOpen
  /\ query' = q
  /\ results' = searchHits(q, index)
  /\ index' = IF isBlank(q) THEN index
              ELSE [k \in 1..Len(index) |->
                      [index[k] EXCEPT !.title = toLowerCase(index[k].title)]]
  /\ isSearching' = IF isBlank(q) THEN isSearching ELSE FALSE
  /\ lastEvent' = "search"
  /\ searchRepeated' = (lastEvent = "search" /\ q = query)
  /\ UNCHANGED <<modules, buildPc, buildPos, items, isSearchOpen, route>>
  /\ UNCHANGED pageVars

handleSearch(q) ==
  /\ mounted
  /\ isSearchOpen
  /\ query' = q
  /\ results' = searchHits(q, index)
  /\ isSearching' = IF isBlank(q) THEN isSearching ELSE FALSE
  /\ lastEvent' = "search"
  /\ searchRepeated' = (lastEvent = "search" /\ q = query)
  /\ UNCHANGED <<modules, buildPc, buildPos, items, index, isSearchOpen, route>>
  /\ UNCHANGED pageVars

handleSelect(slug) ==
  /\ mounted
  /\ isSearchOpen
  /\ \E k \in 1..Len(results) : results[k].slug = slug
  /\ route' = slug
  /\ isSearchOpen' = FALSE
  /\ query' = <<>>
  /\ lastEvent' = "select"
  /\ searchRepeated' = FALSE
  /\ UNCHANGED <<modules, buildPc, buildPos, items, index, results, isSearching>>
  /\ UNCHANGED pageVars

Next ==
  \/ Mount
  \/ BuildRead
  \/ BuildReadFail
  \/ \E metaKey \in BOOLEAN, ctrlKey \in BOOLEAN, key \in Keys :
       handleKeyDown(metaKey, ctrlKey, key)
  \/ clickSearchButton
  \/ onClose
  \/ \E q \in Queries : handleSearch(q)
  \/ \E k \in 1..Len(results) : handleSelect(results[k].slug)

Spec == Init /\ [][Next]_vars

(***************************************************************************)
(* getDocContent(slug): the module path it looks up, and whether the       *)
(* lookup finds a module (otherwise it returns null).                      *)
(***************************************************************************)
docPath(slug) == ContentsDir \o slug \o MdExt

hasModule(path) == \E k \in 1..Len(modules) : modules[k].path = path

(***************************************************************************)
(* The same site over asset file names that hold '.md' before the          *)
(* extension as well: x.md, x.mdy.md, x.mdy.mdy.md, ...                    *)
(***************************************************************************)
dottedPathOf(k) ==
  LET inner == <<U.dot, U.m, U.d, U.y>>
  IN  ContentsDir \o <<U.x>>
        \o [n \in 1..(4 * (k - 1)) |-> inner[((n - 1) % 4) + 1]]
        \o MdExt

\* Raw texts 1 and 4 of RawPool (the short ones with a title).
DottedModuleSets ==
  UNION { [1..n -> {1, 4}] : n \in 1..MaxDocs }

DottedInit ==
  /\ modules \in { [k \in DOMAIN f |-> [path |-> dottedPathOf(k), raw |-> RawPool[f[k]]]] :
                   f \in DottedModuleSets }
  /\ buildPc = "unmounted"
  /\ buildPos = 0
  /\ items = <<>>
  /\ index = <<>>
  /\ results = <<>>
  /\ isSearching = FALSE
  /\ query = <<>>
  /\ isSearchOpen = FALSE
  /\ route = <<>>
  /\ lastEvent = "init"
  /\ searchRepeated = FALSE
  /\ pageInit

DottedSpec == DottedInit /\ [][Next]_vars

(***************************************************************************)
(* The index build alone, over asset texts that exercise the frontmatter   *)
(* parser: no header, broken delimiters, and headers of several shapes.    *)
(***************************************************************************)
titleLine(value) == TitleKey \o <<U.colon, U.sp>> \o value

descriptionLine(value) == DescriptionKey \o <<U.colon, U.sp>> \o value

LoaderPool ==
  << \* 1: no header
     <<U.a, U.b>>,
     \* 2: no header, a '---' line inside the text
     <<U.a, U.nl, U.dash, U.dash, U.dash, U.nl, U.b>>,
     \* 3: header never closed
     Fence \o titleLine(<<U.A>>) \o <<U.nl, U.b>>,
     \* 4: closing '---' is the end of the text, no line break after it
     Fence \o titleLine(<<U.A>>) \o <<U.nl, U.dash, U.dash, U.dash>>,
     \* 5: opening line is '--- ' (trailing blank)
     <<U.dash, U.dash, U.dash, U.sp, U.nl>> \o titleLine(<<U.A>>) \o CloseFence \o <<U.b>>,
     \* 6: CR LF line ends
     <<U.dash, U.dash, U.dash, U.cr, U.nl>> \o titleLine(<<U.A>>)
       \o <<U.cr, U.nl, U.dash, U.dash, U.dash, U.cr, U.nl, U.b>>,
     \* 7: title: "A b" / description: 'd'
     withFrontmatter(titleLine(<<U.dq, U.A, U.sp, U.b, U.dq>>) \o <<U.nl>>
                       \o descriptionLine(<<U.sq, U.d, U.sq>>), <<U.b>>),
     \* 8: title: A:b / description: d, and a '---' rule in the body
     withFrontmatter(titleLine(<<U.A, U.colon, U.b>>) \o <<U.nl>>
                       \o descriptionLine(<<U.d>>),
                     <<U.a, U.nl, U.dash, U.dash, U.dash, U.nl, U.b>>),
     \* 9: description only
     withFrontmatter(descriptionLine(<<U.d>>), <<U.b>>),
     \* 10: title: "A (opening quote only) / description: d" (closing quote only)
     withFrontmatter(titleLine(<<U.dq, U.A>>) \o <<U.nl>>
                       \o descriptionLine(<<U.d, U.dq>>), <<U.b>>),
     \* 11: blanks around key and value, and a third key
     withFrontmatter(<<U.sp>> \o TitleKey \o <<U.sp, U.colon, U.sp, U.sp, U.A, U.sp, U.nl>>
                       \o <<U.d, U.colon, U.sp, U.x, U.nl>>
                       \o descriptionLine(<<U.d>>), <<U.b>>),
     \* 12: empty header block
     Fence \o CloseFence \o <<U.b>>,
     \* 13: title key with an empty value
     withFrontmatter(TitleKey \o <<U.colon, U.nl>> \o descriptionLine(<<U.d>>), <<U.b>>),
     \* 14: a header line without a colon
     withFrontmatter(<<U.x, U.y>>, <<U.b>>) >>

LoaderModuleSets ==
  UNION { [1..n -> 1..Len(LoaderPool)] : n \in 1..MaxDocs }

LoaderInit ==
  /\ modules \in { [k \in DOMAIN f |-> [path |-> pathOf(k), raw |-> LoaderPool[f[k]]]] :
                   f \in LoaderModuleSets }
  /\ buildPc = "unmounted"
  /\ buildPos = 0
  /\ items = <<>>
  /\ index = <<>>
  /\ results = <<>>
  /\ isSearching = FALSE
  /\ query = <<>>
  /\ isSearchOpen = FALSE
  /\ route = <<>>
  /\ lastEvent = "init"
  /\ searchRepeated = FALSE
  /\ pageInit

LoaderNext ==
  \/ Mount
  \/ BuildRead
  \/ BuildReadFail

LoaderSpec == LoaderInit /\ [][LoaderNext]_vars

(***************************************************************************)
(* Vocabulary of the properties, stated on the texts themselves.           *)
(***************************************************************************)
AllWhite(text) == \A k \in 1..Len(text) : isWhiteSpace(text[k])

\* A search has just run with a query that is not blank.
Searched == lastEvent = "search" /\ ~AllWhite(query)

lq == toLowerCase(query)

TitleMatches(item) == includes(toLowerCase(item.title), lq)

BodyMatches(item) == includes(toLowerCase(item.content), lq)

HitsFor(slug) == {j \in 1..Len(results) : results[j].slug = slug}

\* text[from .. to), 0-based, empty when to <= from.
Slice(text, from, to) == [n \in 1..(to - from) |-> text[from + n]]

FirstAt(text, pat) ==
  CHOOSE k \in 0..Len(text) :
    occursAt(text, pat, k) /\ \A j \in 0..(k - 1) : ~occursAt(text, pat, j)

\* The records of all assets, in enumeration order.
fullCollection ==
  [k \in 1..Len(modules) |-> loadRecord(modules[k].path, modules[k].raw)]

PositionOf(slug) == CHOOSE k \in 1..Len(index) : index[k].slug = slug

(***************************************************************************)
(* C1: after search(q) with q not blank, every indexed document whose      *)
(* lowercased title contains lowercase(q) has exactly one hit, and that    *)
(* hit is tagged 'title', whether or not the body contains q as well.      *)
(***************************************************************************)
C1_TitleMatchWins ==
  Searched =>
    \A k \in 1..Len(index) :
      TitleMatches(index[k]) =>
        /\ Cardinality(HitsFor(index[k].slug)) = 1
        /\ \A j \in HitsFor(index[k].slug) : results[j].matchType = "title"

C1_Witness ==
  /\ Searched
  /\ \E k \in 1..Len(index) :
       /\ TitleMatches(index[k])
       /\ BodyMatches(index[k])
       /\ \E j \in HitsFor(index[k].slug) : results[j].matchType = "title"

(***************************************************************************)
(* C2: after search(q) with q not blank, every indexed document whose      *)
(* lowercased title lacks lowercase(q) but whose lowercased body has it    *)
(* gets one hit tagged 'content' whose snippet is '...' + body[max(0,i-40) *)
(* .. min(len, i+60)) + '...', i the first occurrence in the lowercased    *)
(* body.                                                                   *)
(***************************************************************************)
C2_ContentSnippetWindow ==
  Searched =>
    \A k \in 1..Len(index) :
      (~TitleMatches(index[k]) /\ BodyMatches(index[k])) =>
        LET body == index[k].content
            at == FirstAt(toLowerCase(body), lq)
        IN  /\ Cardinality(HitsFor(index[k].slug)) = 1
            /\ \A j \in HitsFor(index[k].slug) :
                 /\ results[j].matchType = "content"
                 /\ results[j].snippet =
                      <<46, 46, 46>>
                        \o Slice(body, Max(0, at - 40), Min(Len(body), at + 60))
                        \o <<46, 46, 46>>

\* A content hit whose window is cut on neither side by the body's ends.
C2_Witness ==
  /\ Searched
  /\ \E k \in 1..Len(index) :
       /\ ~TitleMatches(index[k])
       /\ BodyMatches(index[k])
       /\ FirstAt(toLowerCase(index[k].content), lq) > 40
       /\ FirstAt(toLowerCase(index[k].content), lq) + 60 < Len(index[k].content)
       /\ \E j \in HitsFor(index[k].slug) : Len(results[j].snippet) = 106

(***************************************************************************)
(* C3: after search(q), the snippet of every content hit contains q        *)
(* (compared case-insensitively) between its ellipsis markers, for every   *)
(* query length.                                                           *)
(***************************************************************************)
C3_SnippetContainsMatch ==
  Searched =>
    \A j \in 1..Len(results) :
      results[j].matchType = "content" =>
        includes(toLowerCase(Slice(results[j].snippet, 3, Len(results[j].snippet) - 3)), lq)

(***************************************************************************)
(* C4: when the read of one asset fails during the build, only that asset  *)
(* is skipped: a later search returns the hits over the records of every   *)
(* other asset.                                                            *)
(***************************************************************************)
C4_ReadFailureSkipsOnlyThatAsset ==
  (buildPc = "failed" /\ Searched) =>
    results =
      searchHits(query, SelectSeq(fullCollection,
                                  LAMBDA item : item.slug # slugOf(modules[buildPos].path)))

(***************************************************************************)
(* C5: no search computes its results against the collection before        *)
(* buildIndex has finished and published the index.                        *)
(***************************************************************************)
C5_NoSearchBeforeIndexBuilt == Searched => buildPc = "done"

(***************************************************************************)
(* C6: the index a search sees is never partially built: it is the initial *)
(* empty collection or the records of all assets, and a search that runs   *)
(* after the build completed scans all of them.                            *)
(***************************************************************************)
C6_NoPartialIndex ==
  /\ index = <<>> \/ index = fullCollection
  /\ (Searched /\ buildPc = "done") =>
       \A k \in 1..Len(modules) :
         (TitleMatches(fullCollection[k]) \/ BodyMatches(fullCollection[k]))
           => HitsFor(fullCollection[k].slug) # {}

\* The last of several assets, read after the first was already parsed, is hit.
C6_Witness ==
  /\ Searched
  /\ buildPc = "done"
  /\ Len(modules) >= 2
  /\ HitsFor(fullCollection[Len(modules)].slug) # {}

(***************************************************************************)
(* C7: search(q) with q empty or made of white space only leaves results   *)
(* empty, whatever the index holds.                                        *)
(***************************************************************************)
C7_BlankQueryClearsResults ==
  (lastEvent = "search" /\ AllWhite(query)) => results = <<>>

\* A white-space query that occurs in an indexed title.
C7_Witness ==
  /\ lastEvent = "search"
  /\ AllWhite(query)
  /\ query # <<>>
  /\ \E k \in 1..Len(index) : TitleMatches(index[k])
  /\ results = <<>>

C9_ExactlyTheMatches ==
  Searched =>
    /\ {results[j].slug : j \in 1..Len(results)}
         = {index[k].slug : k \in {n \in 1..Len(index) :
                                     TitleMatches(index[n]) \/ BodyMatches(index[n])}}
    /\ (\A k \in 1..Len(index) : ~TitleMatches(index[k]) /\ ~BodyMatches(index[k]))
         => results = <<>>

\* Every indexed document matches, one of them only through an upper-case
\* letter of its body, and all are returned.
C9_Witness ==
  /\ Searched
  /\ Len(index) >= 2
  /\ Len(results) = Len(index)
  /\ \E k \in 1..Len(index) :
       ~TitleMatches(index[k]) /\ ~includes(index[k].content, lq)

\* No document matches a query over a built, non-empty index.
C9_WitnessNoMatch ==
  /\ Searched
  /\ index # <<>>
  /\ results = <<>>

(***************************************************************************)
(* C10: the hits appear in the order of their documents in the index.      *)
(***************************************************************************)
C10_HitsInIndexOrder ==
  lastEvent = "search" =>
    \A j1, j2 \in 1..Len(results) :
      j1 < j2 => PositionOf(results[j1].slug) < PositionOf(results[j2].slug)

\* A content hit of an earlier document precedes a title hit of a later one.
C10_Witness ==
  /\ lastEvent = "search"
  /\ Len(results) >= 2
  /\ results[1].matchType = "content"
  /\ results[2].matchType = "title"

(***************************************************************************)
(* The hit sequence of the current query over the current index, written   *)
(* from the matching rules: one hit per matching document, in index order. *)
(***************************************************************************)
ExpectedHits ==
  LET matching == SelectSeq(index, LAMBDA item : TitleMatches(item) \/ BodyMatches(item))
  IN  [j \in 1..Len(matching) |->
         IF TitleMatches(matching[j])
         THEN [slug |-> matching[j].slug, title |-> matching[j].title,
               description |-> matching[j].description, matchType |-> "title",
               snippet |-> matching[j].description]
         ELSE LET body == matching[j].content
                  at == FirstAt(toLowerCase(body), lq)
              IN  [slug |-> matching[j].slug, title |-> matching[j].title,
                   description |-> matching[j].description, matchType |-> "content",
                   snippet |-> <<46, 46, 46>>
                                 \o Slice(body, Max(0, at - 40), Min(Len(body), at + 60))
                                 \o <<46, 46, 46>>]]

IsUpper(ch) == ch >= 65 /\ ch <= 90

\* Two texts that differ at most in the case of their ASCII letters.
SameUpToCase(s1, s2) ==
  /\ Len(s1) = Len(s2)
  /\ \A k \in 1..Len(s1) :
       \/ s1[k] = s2[k]
       \/ IsUpper(s1[k]) /\ s2[k] = s1[k] + 32
       \/ IsUpper(s2[k]) /\ s1[k] = s2[k] + 32

(***************************************************************************)
(* C11: after every search call, results is exactly the hit sequence of    *)
(* that call's query over the index it ran on; nothing of an earlier       *)
(* call's results is kept.                                                 *)
(***************************************************************************)
C11_ResultsAreLastCallsHits ==
  lastEvent = "search" =>
    results = IF AllWhite(query) THEN <<>> ELSE ExpectedHits

\* Earlier results were non-empty (one of them was selected); the last call
\* matched nothing over a non-empty index and emptied the list.
C11_Witness ==
  /\ Searched
  /\ route # <<>>
  /\ index # <<>>
  /\ results = <<>>

(***************************************************************************)
(* C12: a search call that repeats the query of the call just before it,   *)
(* over the same index, leaves results as that call left them.             *)
(***************************************************************************)
C12_SearchIdempotent ==
  [][(searchRepeated' /\ index' = index) => results' = results]_vars

C12_Witness ==
  /\ searchRepeated
  /\ ~AllWhite(query)
  /\ results # <<>>

(***************************************************************************)
(* C13: the results of a search equal the results search gives, over the   *)
(* same index, for any query that differs from it only in letter case.     *)
(***************************************************************************)
C13_CaseInsensitive ==
  lastEvent = "search" =>
    \A q2 \in Queries :
      SameUpToCase(q2, query) => searchHits(q2, index) = results

\* An upper-case query with a lower-case twin, hitting a document.
C13_Witness ==
  /\ lastEvent = "search"
  /\ \E k \in 1..Len(query) : IsUpper(query[k])
  /\ \E q2 \in Queries : q2 # query /\ SameUpToCase(q2, query)
  /\ results # <<>>

(***************************************************************************)
(* C14: the index changes at most once, from the initial empty array to    *)
(* the array buildIndex publishes when it finishes, and no search call     *)
(* changes the index or a record in it.                                    *)
(***************************************************************************)
C14_IndexImmutableAfterLoad ==
  [][ /\ index' # index =>
           (index = <<>> /\ buildPc = "reading" /\ buildPc' = "done")
      /\ lastEvent' = "search" => index' = index ]_vars

\* A search over the published index of two records that hits both.
C14_Witness ==
  /\ Searched
  /\ buildPc = "done"
  /\ Len(index) >= 2
  /\ index = fullCollection
  /\ Len(results) = Len(index)

(***************************************************************************)
(* C18: every hit carries the slug, title and description of the indexed   *)
(* record it was made from, and the snippet of a title hit is that         *)
(* record's description (empty when the record has none).                  *)
(***************************************************************************)
C18_HitFieldsCopied ==
  lastEvent = "search" =>
    \A j \in 1..Len(results) :
      \E k \in 1..Len(index) :
        /\ results[j].slug = index[k].slug
        /\ results[j].title = index[k].title
        /\ results[j].description = index[k].description
        /\ results[j].matchType = "title" => results[j].snippet = index[k].description

\* A title hit for a record with an upper-case letter in its title and no
\* description.
C18_Witness ==
  /\ Searched
  /\ \E j \in 1..Len(results) :
       /\ results[j].matchType = "title"
       /\ \E k \in 1..Len(results[j].title) : IsUpper(results[j].title[k])
       /\ results[j].description = <<>>
       /\ results[j].snippet = <<>>

(***************************************************************************)
(* Vocabulary of the loader properties: the header of a raw text, read     *)
(* off the text.                                                           *)
(***************************************************************************)
\* The text opens with a '---' line and has a later '---' line, each ended
\* by a line feed.
Delimited(raw) ==
  /\ Len(raw) >= 4
  /\ Slice(raw, 0, 4) = <<45, 45, 45, 10>>
  /\ \E k \in 4..Len(raw) : occursAt(raw, <<10, 45, 45, 45, 10>>, k)

HeaderEnd(raw) ==
  CHOOSE k \in 4..Len(raw) :
    /\ occursAt(raw, <<10, 45, 45, 45, 10>>, k)
    /\ \A j \in 4..(k - 1) : ~occursAt(raw, <<10, 45, 45, 45, 10>>, j)

HeaderLines(raw) == split(Slice(raw, 4, HeaderEnd(raw)), 10)

BodyAfterHeader(raw) == Slice(raw, HeaderEnd(raw) + 5, Len(raw))

HasColon(line) == \E k \in 1..Len(line) : line[k] = 58

LineKey(line) ==
  IF HasColon(line) THEN trim(Slice(line, 0, FirstAt(line, <<58>>))) ELSE trim(line)

LineValue(line) ==
  IF HasColon(line) THEN trim(Slice(line, FirstAt(line, <<58>>) + 1, Len(line))) ELSE <<>>

LinesWithKey(raw, key) ==
  {n \in 1..Len(HeaderLines(raw)) : LineKey(HeaderLines(raw)[n]) = key}

\* Every header line is 'key: value' with a key and a value, and the keys
\* title and description occur once each.
WellFormedHeader(raw) ==
  /\ Delimited(raw)
  /\ \A n \in 1..Len(HeaderLines(raw)) :
       /\ HasColon(HeaderLines(raw)[n])
       /\ LineKey(HeaderLines(raw)[n]) # <<>>
       /\ LineValue(HeaderLines(raw)[n]) # <<>>
  /\ Cardinality(LinesWithKey(raw, TitleKey)) = 1
  /\ Cardinality(LinesWithKey(raw, DescriptionKey)) = 1

ValueOfKey(raw, key) ==
  LineValue(HeaderLines(raw)[CHOOSE n \in LinesWithKey(raw, key) : TRUE])

\* One quote character, if present, taken off each end.
Unquoted(v) ==
  LET lead == IF v # <<>> /\ v[1] \in {34, 39} THEN 1 ELSE 0
      trail == IF Len(v) > lead /\ v[Len(v)] \in {34, 39} THEN 1 ELSE 0
  IN  Slice(v, lead, Len(v) - trail)

HasFenceLine(text) ==
  \E n \in 1..Len(split(text, 10)) : split(text, 10)[n] = <<45, 45, 45>>

(***************************************************************************)
(* C15 as stated: for every raw text without a well-formed metadata block  *)
(* (none, unterminated, or a block whose lines are not 'key: value') the   *)
(* record's title is the slug, its description is empty and its content is *)
(* the entire raw text.                                                    *)
(***************************************************************************)
KeyedBlock(raw) ==
  /\ Delimited(raw)
  /\ \A n \in 1..Len(HeaderLines(raw)) :
       HasColon(HeaderLines(raw)[n]) /\ LineKey(HeaderLines(raw)[n]) # <<>>

C15_FallbackWheneverMalformed ==
  \A k \in 1..Len(items) :
    ~KeyedBlock(modules[k].raw) =>
      /\ items[k].title = items[k].slug
      /\ items[k].description = <<>>
      /\ items[k].content = modules[k].raw

(***************************************************************************)
(* C15 amended: the loader yields a record for every raw text; for a text  *)
(* without a delimited header (no opening '---' line, or no closing one)   *)
(* the record's title is the slug, its description is empty and its        *)
(* content is the whole text; for a text with a delimited header that has  *)
(* no title key the title is the slug, and the content is the text after   *)
(* the header even when the header's lines are malformed.                  *)
(***************************************************************************)
C15_LoaderTotalWithFallback ==
  /\ buildPc = "done" => Len(items) = Len(modules)
  /\ \A k \in 1..Len(items) :
       LET raw == modules[k].raw
       IN  /\ DOMAIN items[k] = {"slug", "title", "description", "content"}
           /\ ~Delimited(raw) =>
                /\ items[k].title = items[k].slug
                /\ items[k].description = <<>>
                /\ items[k].content = raw
           /\ (Delimited(raw) /\ LinesWithKey(raw, TitleKey) = {}) =>
                items[k].title = items[k].slug
           /\ Delimited(raw) => items[k].content = BodyAfterHeader(raw)

\* Loaded: a text whose header is never closed, and a text whose header has
\* no title key.
C15_Witness ==
  /\ buildPc = "done"
  /\ \E k \in 1..Len(items) :
       /\ ~Delimited(modules[k].raw)
       /\ Len(modules[k].raw) >= 4
       /\ Slice(modules[k].raw, 0, 4) = <<45, 45, 45, 10>>
       /\ items[k].content = modules[k].raw
  /\ \E k \in 1..Len(items) :
       /\ Delimited(modules[k].raw)
       /\ LinesWithKey(modules[k].raw, TitleKey) = {}
       /\ items[k].title = items[k].slug

C17_BodyHasNoDelimiterLine ==
  \A k \in 1..Len(items) : ~HasFenceLine(items[k].content)

(***************************************************************************)
(* C17 amended: the content of a record is the raw text without its        *)
(* leading header: for a text with a delimited header, raw = '---' line +  *)
(* block + '---' line + content, the block ending at the first closing     *)
(* delimiter; otherwise content is the raw text.  '---' lines after the    *)
(* header stay in the content.                                             *)
(***************************************************************************)
C17_OnlyLeadingHeaderRemoved ==
  \A k \in 1..Len(items) :
    LET raw == modules[k].raw
        body == items[k].content
        blockEnd == Len(raw) - Len(body) - 5
    IN  IF Delimited(raw)
        THEN /\ blockEnd >= 4
             /\ raw = <<45, 45, 45, 10>> \o Slice(raw, 4, blockEnd)
                        \o <<10, 45, 45, 45, 10>> \o body
             /\ \A j \in 4..(blockEnd - 1) : ~occursAt(raw, <<10, 45, 45, 45, 10>>, j)
        ELSE body = raw

\* Loaded: a text with a header and a '---' rule further down, which stays
\* in the content.
C17_Witness ==
  \E k \in 1..Len(items) :
    /\ Delimited(modules[k].raw)
    /\ HasFenceLine(items[k].content)
    /\ items[k].title # items[k].slug

(***************************************************************************)
(* C19: the slug of every hit is a key getDocContent finds a module for,   *)
(* and selecting a hit leaves the route at /docs/<slug> of a hit and the   *)
(* search modal closed.                                                    *)
(***************************************************************************)
C19_HitSlugIsRetrievalKey ==
  /\ \A j \in 1..Len(results) : hasModule(docPath(results[j].slug))
  /\ lastEvent = "select" =>
       /\ ~isSearchOpen
       /\ \E j \in 1..Len(results) : route = results[j].slug

(***************************************************************************)
(* C20 as stated: the step that starts the index build is the first        *)
(* opening of the search modal, not the mounting of the application.       *)
(***************************************************************************)
C20_BuildStartsOnFirstOpen ==
  [][(buildPc = "unmounted" /\ buildPc' # "unmounted") => isSearchOpen']_vars

(***************************************************************************)
(* C20 amended: the index build starts exactly once, when the Header and   *)
(* its SearchModal mount (the modal still closed); it never starts again,  *)
(* and opening or closing the modal does not touch it.                     *)
(***************************************************************************)
C20_BuildStartsOnceAtMount ==
  [][ /\ (buildPc = "unmounted" /\ buildPc' # "unmounted") =>
           (lastEvent' = "mount" /\ ~isSearchOpen')
      /\ buildPc # "unmounted" =>
           /\ buildPc' # "unmounted"
           /\ buildPos' >= buildPos
           /\ Len(items') >= Len(items)
      /\ isSearchOpen' # isSearchOpen =>
           UNCHANGED <<buildPc, buildPos, items, index>> ]_vars

\* The modal is opened for the first time after the build has finished.
C20_Witness ==
  /\ lastEvent = "open"
  /\ isSearchOpen
  /\ query = <<>>
  /\ results = <<>>
  /\ buildPc = "done"
  /\ index # <<>>

MaxScroll == 4

ratLE(a, b) == a.num * b.den <= b.num * a.den

mathMax(a, b) == IF ratLE(a, b) THEN b ELSE a

mathMin(a, b) == IF ratLE(a, b) THEN a ELSE b

\* Variant: the percentage is set without clamping.
progressOf_unclamped(top, total, client) ==
  LET scrollHeight == total - client
  IN  IF scrollHeight > 0 THEN Rat(top * 100, scrollHeight) ELSE Rat(0, 1)

\* updateProgress: the value handed to setProgress.
progressOf(top, total, client) ==
  LET scrollHeight == total - client
      progressPercent == IF scrollHeight > 0
                         THEN Rat(top * 100, scrollHeight)
                         ELSE Rat(0, 1)
  IN  mathMin(Rat(100, 1), mathMax(Rat(0, 1), progressPercent))

searchFrame ==
  UNCHANGED <<modules, buildPc, buildPos, items, index, results, isSearching,
              query, isSearchOpen, route, searchRepeated>>

\* Mount effect: the scroll listener is added and updateProgress runs once.
MountReading ==
  /\ ~reading.mounted
  /\ reading' = [reading EXCEPT
                   !.mounted = TRUE,
                   !.progress = progressOf(reading.scrollTop, reading.scrollHeight,
                                           reading.clientHeight)]
  /\ lastEvent' = "readingMount"
  /\ searchFrame
  /\ UNCHANGED <<article, diagram>>

\* Unmount: the listener is removed and the state is dropped.
UnmountReading ==
  /\ reading.mounted
  /\ reading' = [reading EXCEPT !.mounted = FALSE, !.progress = Rat(0, 1)]
  /\ lastEvent' = "readingUnmount"
  /\ searchFrame
  /\ UNCHANGED <<article, diagram>>

\* The content or the viewport changes size: no scroll event, the browser
\* keeps scrollTop inside the new range.
Relayout(total, client) ==
  /\ <<total, client>> # <<reading.scrollHeight, reading.clientHeight>>
  /\ reading' = [reading EXCEPT
                   !.scrollHeight = total,
                   !.clientHeight = client,
                   !.scrollTop = Min(reading.scrollTop, Max(0, total - client))]
  /\ lastEvent' = "layout"
  /\ searchFrame
  /\ UNCHANGED <<article, diagram>>

\* A scroll event on <main> at offset top (overscroll included); the
\* listener, if the component is mounted, runs updateProgress.
Scroll(top) ==
  /\ top <= Max(0, reading.scrollHeight - reading.clientHeight) + 1
  /\ reading' = [reading EXCEPT
                   !.scrollTop = top,
                   !.progress = IF reading.mounted
                                THEN progressOf(top, reading.scrollHeight,
                                                reading.clientHeight)
                                ELSE reading.progress]
  /\ lastEvent' = "scroll"
  /\ searchFrame
  /\ UNCHANGED <<article, diagram>>

ReadingNext ==
  \/ MountReading
  \/ UnmountReading
  \/ \E total \in 0..MaxScroll, client \in 0..MaxScroll : Relayout(total, client)
  \/ \E top \in -1..(MaxScroll + 1) : Scroll(top)

ReadingInit ==
  /\ modules = <<>>
  /\ buildPc = "unmounted"
  /\ buildPos = 0
  /\ items = <<>>
  /\ index = <<>>
  /\ results = <<>>
  /\ isSearching = FALSE
  /\ query = <<>>
  /\ isSearchOpen = FALSE
  /\ route = <<>>
  /\ lastEvent = "init"
  /\ searchRepeated = FALSE
  /\ pageInit

ReadingSpec == ReadingInit /\ [][ReadingNext]_vars

(***************************************************************************)
(* C22: after a scroll event handled by a mounted ReadingProgress the      *)
(* progress value lies in [0, 100]; it is 0 when the container cannot      *)
(* scroll (scrollHeight - clientHeight <= 0) and otherwise it is           *)
(* scrollTop / (scrollHeight - clientHeight) * 100, cut to 0 below and to  *)
(* 100 above.                                                              *)
(***************************************************************************)
C22_ProgressWithinRange ==
  (reading.mounted /\ lastEvent = "scroll") =>
    LET p == reading.progress
        range == reading.scrollHeight - reading.clientHeight
        top == reading.scrollTop
    IN  /\ p.den > 0
        /\ 0 <= p.num
        /\ p.num <= 100 * p.den
        /\ range <= 0 => p.num = 0
        /\ (range > 0 /\ top <= 0) => p.num = 0
        /\ (range > 0 /\ top >= range) => p.num = 100 * p.den
        /\ (range > 0 /\ 0 < top /\ top < range) =>
             p.num * range = top * 100 * p.den

\* Scrolled past the end of a scrollable container: the value is cut to 100.
C22_Witness ==
  /\ reading.mounted
  /\ lastEvent = "scroll"
  /\ reading.scrollHeight - reading.clientHeight > 0
  /\ reading.scrollTop > reading.scrollHeight - reading.clientHeight
  /\ reading.progress = Rat(100, 1)

\* Scrolled part of the way: the value is a proper fraction of 100.
C22_WitnessPartial ==
  /\ reading.mounted
  /\ lastEvent = "scroll"
  /\ reading.progress.num * 3 = 100 * reading.progress.den

(***************************************************************************)
(* getDocContent and ArticlePage.  The route parameter slug is the         *)
(* variable route; a call of getDocContent for a slug without a module     *)
(* returns null before anything else can happen, a call for an existing    *)
(* module stays pending until its import settles.                          *)
(***************************************************************************)
MaxLoads == 3

MissingSlug == <<U.z>>

rawOf(path) == modules[CHOOSE k \in 1..Len(modules) : modules[k].path = path].raw

\* The DocResult of getDocContent for a raw text: meta keeps the values as
\* written; only title and description are read by the page.
docResult(rawContent) ==
  LET fm == frontmatterMatch(rawContent)
      meta == metaAssignments(fm.metaBlock)
      mt == metaGet(meta, TitleKey)
      md == metaGet(meta, DescriptionKey)
  IN  [content |-> fm.content,
       meta |-> [title |-> IF fm.matched /\ mt.has THEN Some(mt.val) ELSE Null,
                 description |-> IF fm.matched /\ md.has THEN Some(md.val) ELSE Null]]

\* loadContent for the new slug, when ArticlePage is mounted or its slug
\* parameter changes.
startLoad(a, slug) ==
  IF hasModule(docPath(slug))
  THEN [a EXCEPT !.mounted = TRUE,
                 !.loading = TRUE,
                 !.calls = a.calls + 1,
                 !.pending = a.pending \cup {[id |-> a.calls + 1, slug |-> slug]}]
  ELSE [a EXCEPT !.mounted = TRUE,
                 !.content = Null,
                 !.loading = FALSE,
                 !.calls = a.calls + 1,
                 !.settled = slug]

\* Navigation to /docs/<slug>.
OpenArticle(slug) ==
  /\ article.calls < MaxLoads
  /\ slug # route
  /\ route' = slug
  /\ article' = startLoad(article, slug)
  /\ lastEvent' = IF hasModule(docPath(slug)) THEN "loadStart" ELSE "loadNull"
  /\ UNCHANGED <<modules, buildPc, buildPos, items, index, results, isSearching,
                 query, isSearchOpen, searchRepeated, reading, diagram>>

\* Navigation away from the article route: ArticlePage unmounts, and calls
\* still pending settle without effect.
LeaveArticle ==
  /\ article.mounted
  /\ route' = <<>>
  /\ article' = [articleInitial EXCEPT !.calls = article.calls]
  /\ lastEvent' = "leave"
  /\ UNCHANGED <<modules, buildPc, buildPos, items, index, results, isSearching,
                 query, isSearchOpen, searchRepeated, reading, diagram>>

\* The import of a pending call resolves: setContent, setMeta, and
\* setLoading(false) in the finally block.
LoadResolve(call) ==
  /\ call \in article.pending
  /\ article' = [article EXCEPT
                   !.pending = article.pending \ {call},
                   !.content = Some(docResult(rawOf(docPath(call.slug))).content),
                   !.meta = Some(docResult(rawOf(docPath(call.slug))).meta),
                   !.loading = FALSE,
                   !.settled = call.slug]
  /\ lastEvent' = "loadOk"
  /\ UNCHANGED <<modules, buildPc, buildPos, items, index, results, isSearching,
                 query, isSearchOpen, route, searchRepeated, reading, diagram>>

\* Variant: no finally block, so loading stays as it was.
LoadReject_noFinally(call) ==
  /\ call \in article.pending
  /\ article' = [article EXCEPT
                   !.pending = article.pending \ {call},
                   !.content = Null,
                   !.settled = call.slug]
  /\ lastEvent' = "loadError"
  /\ UNCHANGED <<modules, buildPc, buildPos, items, index, results, isSearching,
                 query, isSearchOpen, route, searchRepeated, reading, diagram>>

\* The import of a pending call rejects: the catch block sets content to
\* null, the finally block clears loading.
LoadReject(call) ==
  /\ call \in article.pending
  /\ article' = [article EXCEPT
                   !.pending = article.pending \ {call},
                   !.content = Null,
                   !.loading = FALSE,
                   !.settled = call.slug]
  /\ lastEvent' = "loadError"
  /\ UNCHANGED <<modules, buildPc, buildPos, items, index, results, isSearching,
                 query, isSearchOpen, route, searchRepeated, reading, diagram>>

\* The slugs a visitor opens: those of the asset names, and one of no asset.
ArticleSlugs ==
  {slugOf(pathOf(k)) : k \in 1..MaxDocs} \cup {MissingSlug}

Calls == {[id |-> n, slug |-> sl] : n \in 1..MaxLoads, sl \in ArticleSlugs}

ArticleNext ==
  \/ \E slug \in ArticleSlugs : OpenArticle(slug)
  \/ LeaveArticle
  \/ \E call \in Calls : LoadResolve(call)
  \/ \E call \in Calls : LoadReject(call)

\* Texts 1 (no header), 7 (quoted title and description), 8 (title with a
\* colon) and 9 (description only) of LoaderPool.
ArticleModuleSets ==
  UNION { [1..n -> {1, 7, 8, 9}] : n \in 1..MaxDocs }

ArticleInit ==
  /\ modules \in { [k \in DOMAIN f |-> [path |-> pathOf(k), raw |-> LoaderPool[f[k]]]] :
                   f \in ArticleModuleSets }
  /\ buildPc = "unmounted"
  /\ buildPos = 0
  /\ items = <<>>
  /\ index = <<>>
  /\ results = <<>>
  /\ isSearching = FALSE
  /\ query = <<>>
  /\ isSearchOpen = FALSE
  /\ route = <<>>
  /\ lastEvent = "init"
  /\ searchRepeated = FALSE
  /\ pageInit

ArticleSpec == ArticleInit /\ [][ArticleNext]_vars

\* The record getDocContent returns for the module of a slug.
DocOf(slug) == docResult(rawOf(docPath(slug)))

(***************************************************************************)
(* C23: once no getDocContent call is pending, the content and meta of a   *)
(* mounted ArticlePage are those of the current slug: nothing of another   *)
(* document is shown, and a slug without a module shows no content.        *)
(***************************************************************************)
C23_SettledContentIsCurrentSlug ==
  (article.mounted /\ article.pending = {}) =>
    IF hasModule(docPath(route))
    THEN \/ article.content = Null
         \/ /\ article.content = Some(DocOf(route).content)
            /\ article.meta = Some(DocOf(route).meta)
    ELSE article.content = Null

(***************************************************************************)
(* C26: a load attempt that has settled leaves loading false; after a      *)
(* not-found result or a thrown error content is null (the 404 view),      *)
(* after a success content is the body of the document that was loaded;    *)
(* and loading is false whenever no attempt is pending.                    *)
(***************************************************************************)
C26_LoadAttemptsTerminate ==
  article.mounted =>
    /\ lastEvent \in {"loadOk", "loadNull", "loadError"} => ~article.loading
    /\ lastEvent \in {"loadNull", "loadError"} => article.content = Null
    /\ lastEvent = "loadOk" =>
         /\ hasModule(docPath(article.settled))
         /\ article.content = Some(frontmatterMatch(rawOf(docPath(article.settled))).content)
    /\ article.pending = {} => ~article.loading

\* All three outcomes have been seen: a load failed after an earlier success
\* left a document on screen, and the page now shows a missing slug.
C26_Witness ==
  /\ article.mounted
  /\ lastEvent = "loadNull"
  /\ route = MissingSlug
  /\ article.meta # Null
  /\ article.calls = MaxLoads
  /\ ~article.loading

\* A thrown error has cleared the content of an earlier success.
C26_WitnessError ==
  /\ article.mounted
  /\ lastEvent = "loadError"
  /\ article.meta # Null
  /\ article.content = Null
  /\ article.pending = {}

(***************************************************************************)
(* C27: whenever the content of a mounted ArticlePage is null, its meta is *)
(* null too.                                                               *)
(***************************************************************************)
C27_NoMetaWithoutContent ==
  (article.mounted /\ article.content = Null) => article.meta = Null

(***************************************************************************)
(* C24: when the index build completes while the modal holds a query that  *)
(* is not blank, typed before the build was done, results are the hits of  *)
(* that query over the full collection.  After the step that completes the *)
(* build nothing of the program is left to run, so what holds then is what *)
(* holds until the next call of search.                                    *)
(***************************************************************************)
C24_ResultsCatchUpWithIndex ==
  (buildPc = "done" /\ lastEvent = "read" /\ isSearchOpen /\ ~AllWhite(query)) =>
    results = ExpectedHits

(***************************************************************************)
(* C25: whenever the search modal is open and its query input is empty,    *)
(* the result list it displays is empty.                                   *)
(***************************************************************************)
C25_EmptyQueryShowsNoResults ==
  (isSearchOpen /\ query = <<>>) => results = <<>>

(***************************************************************************)
(* MermaidDiagram: numbers.                                                *)
(***************************************************************************)
RECURSIVE gcd(_, _)
gcd(a, b) == IF b = 0 THEN a ELSE gcd(b, a % b)

abs(n) == IF n < 0 THEN -n ELSE n

\* The fraction in lowest terms, so that equal numbers are equal values.
norm(r) ==
  LET g == gcd(abs(r.num), r.den)
  IN  Rat(r.num \div g, r.den \div g)

ratAdd(a, b) == norm(Rat(a.num * b.den + b.num * a.den, a.den * b.den))

ZoomStep == Rat(1, 4)

WheelStep == Rat(1, 10)

MinScale == Rat(1, 2)

MaxScale == Rat(3, 1)

MaxFitScale == Rat(2, 1)

FitPadding == 40

\* a || b || c on numbers: the first that is not 0.
firstNonZero(a, b, c) == IF a # 0 THEN a ELSE IF b # 0 THEN b ELSE c

\* calculateFitScale, for a container that holds an svg or not, and the
\* geometry g the DOM reports.
calculateFitScale(hasSvg, g) ==
  IF ~hasSvg THEN Rat(1, 1)
  ELSE LET svgWidth == firstNonZero(g.viewBoxWidth, g.svgRectWidth, 400)
           svgHeight == firstNonZero(g.viewBoxHeight, g.svgRectHeight, 200)
           scaleX == Rat(g.containerWidth - FitPadding, svgWidth)
           scaleY == Rat(g.containerHeight - FitPadding, svgHeight)
       IN  norm(mathMin(mathMax(mathMin(scaleX, scaleY), MinScale), MaxFitScale))

\* handleAutoFit applied to the diagram state d.
autoFit(d, g) ==
  LET fitScale == calculateFitScale(d.shown.kind = "svg", g)
  IN  [d EXCEPT !.scale = fitScale,
                !.initialScale = fitScale,
                !.position = [x |-> 0, y |-> 0]]

\* Container and svg sizes the DOM may report: a container narrower than
\* the padding, an svg without viewBox and without layout box, small and
\* large diagrams.
Geometries ==
  { [containerWidth |-> 20,  containerHeight |-> 250, viewBoxWidth |-> 100,
     viewBoxHeight |-> 100, svgRectWidth |-> 100, svgRectHeight |-> 100],
    [containerWidth |-> 540, containerHeight |-> 290, viewBoxWidth |-> 0,
     viewBoxHeight |-> 0, svgRectWidth |-> 0, svgRectHeight |-> 0],
    [containerWidth |-> 240, containerHeight |-> 290, viewBoxWidth |-> 250,
     viewBoxHeight |-> 100, svgRectWidth |-> 200, svgRectHeight |-> 80],
    [containerWidth |-> 540, containerHeight |-> 540, viewBoxWidth |-> 0,
     viewBoxHeight |-> 0, svgRectWidth |-> 100, svgRectHeight |-> 50] }

Definitions == {"graph A", "graph B"}

\* What no handler of MermaidDiagram touches.
diagramFrame == searchFrame /\ UNCHANGED <<reading, article>>

(***************************************************************************)
(* MermaidDiagram: mounting, the render effect and the auto-fit effect.    *)
(***************************************************************************)
\* Mount with a definition: the render effect finds the container, finds
\* isRendered false and arms the 50 ms timer.
MountDiagram(definition) ==
  /\ ~diagram.mounted
  /\ diagram' = [diagramInitial EXCEPT !.mounted = TRUE,
                                       !.definition = definition,
                                       !.timer = Some(definition)]
  /\ lastEvent' = "diagramMount"
  /\ diagramFrame

\* Unmount: both effects clean up; calls of mermaid.render still pending
\* find no container when they settle.
UnmountDiagram ==
  /\ diagram.mounted
  /\ diagram' = diagramInitial
  /\ lastEvent' = "diagramUnmount"
  /\ diagramFrame

\* The definition prop changes: the render effect is cleaned up (its timer
\* cleared) and runs again; it returns at once when isRendered is true.
ChangeDefinition(definition) ==
  /\ diagram.mounted
  /\ definition # diagram.definition
  /\ diagram' = [diagram EXCEPT
                   !.definition = definition,
                   !.timer = IF diagram.isRendered THEN Null ELSE Some(definition)]
  /\ lastEvent' = "definition"
  /\ diagramFrame

\* The render timer fires: renderDiagram clears the container and calls
\* mermaid.render with the definition of its closure.
RenderTimerFires ==
  /\ diagram.mounted
  /\ diagram.timer # Null
  /\ diagram' = [diagram EXCEPT
                   !.timer = Null,
                   !.shown = [kind |-> "empty", of |-> ""],
                   !.rendering = diagram.rendering \cup {diagram.timer[1]}]
  /\ lastEvent' = "renderStart"
  /\ diagramFrame

\* mermaid.render resolves: the svg goes into the container and
\* setIsRendered(true); if that changes isRendered, the render effect is
\* cleaned up and the auto-fit effect arms its 100 ms timer.
RenderResolve(definition) ==
  /\ diagram.mounted
  /\ definition \in diagram.rendering
  /\ diagram' = [diagram EXCEPT
                   !.rendering = diagram.rendering \ {definition},
                   !.shown = [kind |-> "svg", of |-> definition],
                   !.isRendered = TRUE,
                   !.timer = Null,
                   !.fitTimer = diagram.fitTimer \/ ~diagram.isRendered]
  /\ lastEvent' = "renderOk"
  /\ diagramFrame

\* mermaid.render rejects: the catch block writes the error message.
RenderReject(definition) ==
  /\ diagram.mounted
  /\ definition \in diagram.rendering
  /\ diagram' = [diagram EXCEPT
                   !.rendering = diagram.rendering \ {definition},
                   !.shown = [kind |-> "error", of |-> definition]]
  /\ lastEvent' = "renderError"
  /\ diagramFrame

\* The auto-fit timer fires: handleAutoFit.
FitTimerFires(g) ==
  /\ diagram.mounted
  /\ diagram.fitTimer
  /\ diagram' = [autoFit(diagram, g) EXCEPT !.fitTimer = FALSE]
  /\ lastEvent' = "fit"
  /\ diagramFrame

(***************************************************************************)
(* MermaidDiagram: zoom and pan handlers.                                  *)
(***************************************************************************)
MaxPan == 1

Points == {[x |-> 0, y |-> 0], [x |-> 1, y |-> 1]}

Buttons == {0, 2}

handleZoomIn ==
  /\ diagram.mounted
  /\ diagram' = [diagram EXCEPT
                   !.scale = norm(mathMin(ratAdd(diagram.scale, ZoomStep), MaxScale))]
  /\ lastEvent' = "zoomIn"
  /\ diagramFrame

handleZoomOut ==
  /\ diagram.mounted
  /\ diagram' = [diagram EXCEPT
                   !.scale = norm(mathMax(ratAdd(diagram.scale, Rat(-ZoomStep.num, ZoomStep.den)),
                                          MinScale))]
  /\ lastEvent' = "zoomOut"
  /\ diagramFrame

\* Variant: the wheel zoom is clamped from below only.
handleWheel_noUpperClamp(deltaY) ==
  /\ diagram.mounted
  /\ LET delta == IF deltaY > 0 THEN Rat(-WheelStep.num, WheelStep.den) ELSE WheelStep
     IN  diagram' = [diagram EXCEPT
                       !.scale = norm(mathMax(ratAdd(diagram.scale, delta), MinScale))]
  /\ lastEvent' = "wheel"
  /\ diagramFrame

handleWheel(deltaY) ==
  /\ diagram.mounted
  /\ LET delta == IF deltaY > 0 THEN Rat(-WheelStep.num, WheelStep.den) ELSE WheelStep
     IN  diagram' = [diagram EXCEPT
                       !.scale = norm(mathMin(mathMax(ratAdd(diagram.scale, delta), MinScale),
                                              MaxScale))]
  /\ lastEvent' = "wheel"
  /\ diagramFrame

\* The fit button: handleAutoFit with the geometry of the moment.
handleReset(g) ==
  /\ diagram.mounted
  /\ diagram' = autoFit(diagram, g)
  /\ lastEvent' = "reset"
  /\ diagramFrame

handleMouseDown(button, point) ==
  /\ diagram.mounted
  /\ diagram' = IF button # 0 THEN diagram
                ELSE [diagram EXCEPT !.isDragging = TRUE,
                                     !.dragStart = point,
                                     !.positionStart = diagram.position]
  /\ lastEvent' = "mouseDown"
  /\ diagramFrame

handleMouseMove(point) ==
  /\ diagram.mounted
  /\ LET moved == [x |-> diagram.positionStart.x + (point.x - diagram.dragStart.x),
                   y |-> diagram.positionStart.y + (point.y - diagram.dragStart.y)]
     IN  /\ abs(moved.x) <= MaxPan
         /\ abs(moved.y) <= MaxPan
         /\ diagram' = IF diagram.isDragging
                       THEN [diagram EXCEPT !.position = moved]
                       ELSE diagram
  /\ lastEvent' = "mouseMove"
  /\ diagramFrame

\* handleMouseUp and handleMouseLeave.
handleMouseUp ==
  /\ diagram.mounted
  /\ diagram' = [diagram EXCEPT !.isDragging = FALSE]
  /\ lastEvent' = "mouseUp"
  /\ diagramFrame

DiagramInit ==
  /\ modules = <<>>
  /\ buildPc = "unmounted"
  /\ buildPos = 0
  /\ items = <<>>
  /\ index = <<>>
  /\ results = <<>>
  /\ isSearching = FALSE
  /\ query = <<>>
  /\ isSearchOpen = FALSE
  /\ route = <<>>
  /\ lastEvent = "init"
  /\ searchRepeated = FALSE
  /\ pageInit

\* A diagram whose definition never changes, with its controls.
ZoomNext ==
  \/ \E definition \in Definitions : MountDiagram(definition)
  \/ RenderTimerFires
  \/ \E definition \in Definitions : RenderResolve(definition)
  \/ \E definition \in Definitions : RenderReject(definition)
  \/ \E g \in Geometries : FitTimerFires(g)
  \/ handleZoomIn
  \/ handleZoomOut
  \/ \E deltaY \in {-100, 100} : handleWheel(deltaY)
  \/ \E g \in Geometries : handleReset(g)
  \/ \E button \in Buttons, point \in Points : handleMouseDown(button, point)
  \/ \E point \in Points : handleMouseMove(point)
  \/ handleMouseUp

ZoomSpec == DiagramInit /\ [][ZoomNext]_vars

\* A diagram whose definition prop changes while it is mounted.
DiagramNext ==
  \/ \E definition \in Definitions : MountDiagram(definition)
  \/ UnmountDiagram
  \/ \E definition \in Definitions : ChangeDefinition(definition)
  \/ RenderTimerFires
  \/ \E definition \in Definitions : RenderResolve(definition)
  \/ \E definition \in Definitions : RenderReject(definition)
  \/ \E g \in Geometries : FitTimerFires(g)

DiagramSpec == DiagramInit /\ [][DiagramNext]_vars

(***************************************************************************)
(* C28: the scale of a mounted diagram is always within [0.5, 3]; after a  *)
(* fit (the auto-fit after rendering, or the fit button) the scale is      *)
(* within [0.5, 2] and the pan position is (0, 0).                         *)
(***************************************************************************)
C28_ScaleWithinBounds ==
  diagram.mounted =>
    /\ diagram.scale.den > 0
    /\ diagram.scale.den <= 2 * diagram.scale.num
    /\ diagram.scale.num <= 3 * diagram.scale.den
    /\ lastEvent \in {"fit", "reset"} =>
         /\ diagram.scale.num <= 2 * diagram.scale.den
         /\ diagram.position = [x |-> 0, y |-> 0]

\* The fit button, pressed on a diagram that had been zoomed to 3 or panned
\* away, brings the scale to 2 and the position to the origin.
C28_Witness ==
  /\ lastEvent = "reset"
  /\ diagram.scale = Rat(2, 1)
  /\ diagram.positionStart # [x |-> 0, y |-> 0]
  /\ diagram.position = [x |-> 0, y |-> 0]

\* The scale has been driven to both ends of its range.
C28_WitnessMax ==
  /\ diagram.mounted
  /\ diagram.scale = Rat(3, 1)
  /\ diagram.position # [x |-> 0, y |-> 0]

(***************************************************************************)
(* C29: once no render timer and no mermaid.render call is pending, an svg *)
(* in the container is the rendering of the current definition prop; and   *)
(* a container showing the error message belongs to a diagram that is not  *)
(* marked as rendered.                                                     *)
(***************************************************************************)
C29_DiagramFollowsDefinition ==
  (diagram.mounted /\ diagram.timer = Null /\ diagram.rendering = {}) =>
    /\ diagram.shown.kind = "svg" => diagram.shown.of = diagram.definition
    /\ diagram.shown.kind = "error" =>
         (~diagram.isRendered /\ diagram.shown.of = diagram.definition)
    /\ diagram.shown.kind # "empty"

(***************************************************************************)
(* The index build and the article page side by side, over the same        *)
(* assets: both parse the raw text of a document.                          *)
(***************************************************************************)
ParsersNext ==
  \/ Mount
  \/ BuildRead
  \/ BuildReadFail
  \/ \E slug \in ArticleSlugs : OpenArticle(slug)
  \/ LeaveArticle
  \/ \E call \in Calls : LoadResolve(call)
  \/ \E call \in Calls : LoadReject(call)

\* Texts 1 (no header) and 7 (quoted title and description) of LoaderPool.
ParsersModuleSets ==
  UNION { [1..n -> {1, 7}] : n \in 1..MaxDocs }

ParsersInit ==
  /\ modules \in { [k \in DOMAIN f |-> [path |-> pathOf(k), raw |-> LoaderPool[f[k]]]] :
                   f \in ParsersModuleSets }
  /\ buildPc = "unmounted"
  /\ buildPos = 0
  /\ items = <<>>
  /\ index = <<>>
  /\ results = <<>>
  /\ isSearching = FALSE
  /\ query = <<>>
  /\ isSearchOpen = FALSE
  /\ route = <<>>
  /\ lastEvent = "init"
  /\ searchRepeated = FALSE
  /\ pageInit

ParsersSpec == ParsersInit /\ [][ParsersNext]_vars

(***************************************************************************)
(* C30: when the article page has just loaded a document that the index    *)
(* holds, the body on the page is the content of the index record, and     *)
(* the title and description of the page's meta, where the header defines  *)
(* them, are the title and description of the index record (those the      *)
(* search results show).                                                   *)
(***************************************************************************)
C30_ParsersAgree ==
  (article.mounted /\ lastEvent = "loadOk" /\ buildPc = "done") =>
    \A k \in 1..Len(index) :
      index[k].slug = article.settled =>
        /\ article.content = Some(index[k].content)
        /\ article.meta[1].title # Null =>
             article.meta[1].title = Some(index[k].title)
        /\ article.meta[1].description # Null =>
             article.meta[1].description = Some(index[k].description)

====
